---- MODULE Spec2Model ----
(***************************************************************************)
(* A model of paradox/hardware/panel.py: the label loader (load_labels,    *)
(* _load_labels), the message dispatcher (parse_message), the password     *)
(* encoder (encode_password), the status dispatcher (handle_status) and    *)
(* the five handshake frame layouts.                                       *)
(*                                                                         *)
(* Each component has its own variables and its own specification; a       *)
(* specification pins the variables of the other components.               *)
(***************************************************************************)
EXTENDS Integers, Sequences, FiniteSets, TLC

VARIABLES
    \* ---- label loader (load_labels / _load_labels) ----
    pc,           \* position of the load_labels coroutine
    mem_map,      \* self.mem_map['elements']: category -> [addresses, label_offset]
    limits,       \* cfg.LIMITS: category -> [set: BOOLEAN, allow: set of indices]
    cat,          \* position of the for-loop of load_labels in Categories
    addresses,    \* the (index, address) pairs handed to _load_labels
    pos,          \* position of the for-loop of _load_labels in addresses
    data,         \* the defaultdict(dict) load_labels builds and returns
    requests,     \* every send_wait issued so far, in order
    outstanding,  \* number of send_wait calls that have not returned
    missed,       \* category -> position of the pair whose reply was None (0: none)
    errors,       \* number of logger.error calls
    returned,     \* whether load_labels has returned data
    \* ---- message dispatcher (parse_message) ----
    p_call,       \* the call: [made, message, direction]
    p_ret,        \* its outcome
    \* ---- password encoder (encode_password) ----
    pw_call,      \* the call: [made, password]
    pw_ret,       \* its outcome
    \* ---- status dispatcher (handle_status) ----
    s_parser_map, \* address -> parser
    s_call,       \* the last call: [made, address, data]
    s_ret,        \* its outcome
    s_failed,     \* number of earlier calls that returned nothing
    s_calls,      \* number of calls made
    \* ---- frame definitions (build / parse) ----
    f_call,       \* the call: [made, op, frame, ...]
    f_ret         \* its outcome

label_vars  == <<pc, mem_map, limits, cat, addresses, pos, data, requests,
                 outstanding, missed, errors, returned>>
parse_vars  == <<p_call, p_ret>>
pw_vars     == <<pw_call, pw_ret>>
status_vars == <<s_parser_map, s_call, s_ret, s_failed, s_calls>>
frame_vars  == <<f_call, f_ret>>
vars == <<label_vars, parse_vars, pw_vars, status_vars, frame_vars>>

\* What an action of one component leaves alone: the other components.
not_label_vars  == <<parse_vars, pw_vars, status_vars, frame_vars>>
not_parse_vars  == <<label_vars, pw_vars, status_vars, frame_vars>>
not_pw_vars     == <<label_vars, parse_vars, status_vars, frame_vars>>
not_status_vars == <<label_vars, parse_vars, pw_vars, frame_vars>>
not_frame_vars  == <<label_vars, parse_vars, pw_vars, status_vars>>

(***************************************************************************)
(* Helpers on sequences and bytes.                                         *)
(***************************************************************************)
Min(a, b) == IF a < b THEN a ELSE b
Max(a, b) == IF a > b THEN a ELSE b

Range(s) == {s[i] : i \in DOMAIN s}

RECURSIVE SumSeq(_)
SumSeq(s) == IF s = <<>> THEN 0 ELSE Head(s) + SumSeq(Tail(s))

RECURSIVE Flatten(_)
\* itertools.chain.from_iterable
Flatten(ss) == IF ss = <<>> THEN <<>> ELSE Head(ss) \o Flatten(Tail(ss))

Zeros(n) == [i \in 1..n |-> 0]

\* Python's s[a:b] on a sequence (0-based, b exclusive, clipped to the length).
Slice(s, a, b) == SubSeq(s, Min(a, Len(s)) + 1, Min(b, Len(s)))

(***************************************************************************)
(* Label loader: Panel.load_labels and Panel._load_labels.                 *)
(***************************************************************************)
\* Largest number of addresses one category of the labeled-element table has.
MaxAddr == 3

\* The keys of self.mem_map['elements'], in the dictionary's iteration order.
Categories == <<"zone", "partition", "pgm">>

CatPos(c) == CHOOSE i \in DOMAIN Categories : Categories[i] = c

\* field_length, the default of _load_labels' parameter.
field_length == 16

\* The command of a memory-read reply, as reply_expected tests it.
ReadReplyCommand == 5

\* elem_def['addresses'] of a category with n addresses: a list of address
\* ranges (the first address alone, then the rest).
AddressRanges(c, n) ==
    LET a(k) == CatPos(c) * 256 + k * 16
    IN  IF n = 0 THEN <<>>
        ELSE IF n = 1 THEN << <<a(1)>> >>
        ELSE << <<a(1)>>, [k \in 1..(n - 1) |-> a(k + 1)] >>

\* The labeled-element tables the panel-model subclass may supply.
MemMaps ==
    {[c \in Range(Categories) |->
        [addresses |-> AddressRanges(c, n[c]), label_offset |-> CatPos(c) % 2]]
     : n \in [Range(Categories) -> 0..MaxAddr]}

NoLimit == [set |-> FALSE, allow |-> {}]

\* cfg.LIMITS: no entry at all, or an allow-list for one category.
LimitChoices ==
    {[c \in Range(Categories) |-> NoLimit]}
    \cup {[c \in Range(Categories) |->
             IF c = d THEN [set |-> TRUE, allow |-> L] ELSE NoLimit]
          : d \in Range(Categories), L \in {{}, {2}, {1, MaxAddr}}}

\* The content of the panel's memory at an address: a 16-byte record.
MemData(a) ==
    LET k == (a \div 16) % 3
    IN  IF k = 0 THEN <<0, 68, 111, 111, 114, 0, 49, 32, 32, 32, 32, 32, 32, 32, 32, 32>>
        ELSE IF k = 1 THEN <<32, 75, 201, 121, 0, 0, 0, 0, 0, 0, 0, 0, 0, 0, 0, 0>>
        ELSE Zeros(16)

\* The pairs of FilteredAddresses, last address first.
FilteredReversed(m, lim, c) ==
    LET flat == Flatten(m[c].addresses)
        all  == [i \in 1..Len(flat) |-> <<Len(flat) + 1 - i, flat[Len(flat) + 1 - i]>>]
    IN  IF lim[c].set THEN SelectSeq(all, LAMBDA p : p[1] \in lim[c].allow) ELSE all

\* enumerate(chain.from_iterable(elem_def['addresses']), start=1), filtered by
\* cfg.LIMITS.get(elem_type) when there is one.
FilteredAddresses(m, lim, c) ==
    LET flat == Flatten(m[c].addresses)
        all  == [i \in 1..Len(flat) |-> <<i, flat[i]>>]
    IN  IF lim[c].set THEN SelectSeq(all, LAMBDA p : p[1] \in lim[c].allow) ELSE all

\* bytes.strip(b'\0 '): drops the bytes 0 and 32 at both ends.
RECURSIVE LStrip(_)
LStrip(s) == IF s # <<>> /\ Head(s) \in {0, 32} THEN LStrip(Tail(s)) ELSE s

RECURSIVE RStrip(_)
RStrip(s) ==
    IF s # <<>> /\ s[Len(s)] \in {0, 32} THEN RStrip(SubSeq(s, 1, Len(s) - 1)) ELSE s

Strip(s) == RStrip(LStrip(s))

\* bytes.replace(b'\0', b' ')
ReplaceNul(s) == [i \in DOMAIN s |-> IF s[i] = 0 THEN 32 ELSE s[i]]

\* label.decode(cfg.LABEL_ENCODING), and on UnicodeDecodeError
\* label.decode('utf-8', errors='ignore'): a byte above 127 that starts no
\* valid sequence is dropped.
Decode(s) ==
    IF \A i \in DOMAIN s : s[i] < 128 THEN s
    ELSE SelectSeq(s, LAMBDA b : b < 128)

\* paradox.lib.utils.sanitize_key: every character that is not a word
\* character becomes an underscore.
IsWordChar(ch) ==
    \/ ch \in 48..57
    \/ ch \in 65..90
    \/ ch \in 97..122
    \/ ch = 95

sanitize_key(label) == [i \in DOMAIN label |-> IF IsWordChar(label[i]) THEN label[i] ELSE 95]

\* Lines 180-195: the properties stored for one reply.
Properties(index, reply_data, label_offset) ==
    LET b_label == Strip(Slice(reply_data, label_offset, label_offset + field_length))
        label   == Decode(ReplaceNul(b_label))
    IN  [id |-> index, key |-> sanitize_key(label), label |-> label]

\* The reply_expected predicate of line 174.
reply_expected(m, address) == m.command = ReadReplyCommand /\ m.address = address

NoReply == [none |-> TRUE, command |-> 0, address |-> 0, data |-> <<>>]

\* What the transport may see while send_wait waits for the reply to a read
\* of `address`: the matching reply, a reply to another address, a message
\* of another command, or nothing.
TransportMessages(address) ==
    {[none |-> FALSE, command |-> ReadReplyCommand, address |-> address,
      data |-> MemData(address)],
     [none |-> FALSE, command |-> ReadReplyCommand, address |-> address + 16,
      data |-> MemData(address + 16)],
     [none |-> FALSE, command |-> 7, address |-> address, data |-> <<>>],
     NoReply}

\* core.send_wait: the message when it satisfies reply_expected, else None.
send_wait(m, address) ==
    IF ~m.none /\ reply_expected(m, address) THEN m ELSE NoReply

LabelInit ==
    /\ pc = "idle"
    /\ mem_map \in MemMaps
    /\ limits \in LimitChoices
    /\ cat = 0
    /\ addresses = <<>>
    /\ pos = 0
    /\ data = <<>>
    /\ requests = <<>>
    /\ outstanding = 0
    /\ missed = [c \in Range(Categories) |-> 0]
    /\ errors = 0
    /\ returned = FALSE

\* The label loader when another component is under check.
LabelOff ==
    /\ pc = "off"
    /\ mem_map = <<>>
    /\ limits = <<>>
    /\ cat = 0
    /\ addresses = <<>>
    /\ pos = 0
    /\ data = <<>>
    /\ requests = <<>>
    /\ outstanding = 0
    /\ missed = <<>>
    /\ errors = 0
    /\ returned = FALSE

\* load_labels, lines 134-137.
StartLoad ==
    /\ UNCHANGED not_label_vars
    /\ pc = "idle"
    /\ pc' = "category"
    /\ cat' = 1
    /\ data' = <<>>
    /\ UNCHANGED <<mem_map, limits, addresses, pos, requests, outstanding,
                   missed, errors, returned>>

\* load_labels, lines 139-147: the addresses of the category, and the call of
\* _load_labels on data[elem_type] (which the defaultdict creates).
BeginCategory ==
    /\ UNCHANGED not_label_vars
    /\ pc = "category"
    /\ LET elem_type == Categories[cat]
       IN  /\ addresses' = FilteredAddresses(mem_map, limits, elem_type)
           /\ data' = [c \in DOMAIN data \cup {elem_type} |->
                         IF c \in DOMAIN data THEN data[c] ELSE <<>>]
    /\ pos' = 1
    /\ pc' = "loop"
    /\ UNCHANGED <<mem_map, limits, cat, requests, outstanding, missed, errors,
                   returned>>

\* _load_labels, lines 172-174: the request is handed to send_wait.
SendRequest ==
    /\ UNCHANGED not_label_vars
    /\ pc = "loop"
    /\ pos <= Len(addresses)
    /\ requests' = Append(requests,
                          [cat |-> cat, pos |-> pos, index |-> addresses[pos][1],
                           address |-> addresses[pos][2], length |-> field_length])
    /\ outstanding' = outstanding + 1
    /\ pc' = "await"
    /\ UNCHANGED <<mem_map, limits, cat, addresses, pos, data, missed, errors,
                   returned>>

\* Lines 176-178 with `continue` in place of `return`.
MissContinues ==
    /\ errors' = errors + 1
    /\ missed' = [missed EXCEPT ![Categories[cat]] = IF @ = 0 THEN pos ELSE @]
    /\ pos' = pos + 1
    /\ pc' = "loop"
    /\ UNCHANGED <<data, returned>>

\* Lines 176-178 with the failure ending load_labels as a whole.
MissEndsLoad ==
    /\ errors' = errors + 1
    /\ missed' = [missed EXCEPT ![Categories[cat]] = pos]
    /\ pc' = "done"
    /\ returned' = TRUE
    /\ UNCHANGED <<data, pos>>

\* _load_labels, lines 176-178: no reply; log the error and return.
Miss ==
    /\ errors' = errors + 1
    /\ missed' = [missed EXCEPT ![Categories[cat]] = pos]
    /\ pc' = "cat_done"
    /\ UNCHANGED <<data, pos, returned>>

\* _load_labels, lines 180-196: decode the label and store the properties.
Store(reply) ==
    /\ LET elem_type == Categories[cat]
           index     == addresses[pos][1]
           props     == Properties(index, reply.data, mem_map[elem_type].label_offset)
       IN  data' = [data EXCEPT ![elem_type] =
                       [i \in DOMAIN @ \cup {index} |-> IF i = index THEN props ELSE @[i]]]
    /\ pos' = pos + 1
    /\ pc' = "loop"
    /\ UNCHANGED <<missed, errors, returned>>

\* send_wait returns (line 174), and the rest of the loop body runs.
ReceiveReply ==
    /\ UNCHANGED not_label_vars
    /\ pc = "await"
    /\ \E m \in TransportMessages(addresses[pos][2]) :
          LET reply == send_wait(m, addresses[pos][2])
          IN  IF reply.none THEN Miss ELSE Store(reply)
    /\ outstanding' = outstanding - 1
    /\ UNCHANGED <<mem_map, limits, cat, addresses, requests>>

\* _load_labels: the for-loop of line 172 is exhausted; the coroutine returns.
LoopExhausted ==
    /\ UNCHANGED not_label_vars
    /\ pc = "loop"
    /\ pos > Len(addresses)
    /\ pc' = "cat_done"
    /\ UNCHANGED <<mem_map, limits, cat, addresses, pos, data, requests,
                   outstanding, missed, errors, returned>>

\* load_labels, lines 149-151: log the category, then the next one or return.
EndCategory ==
    /\ UNCHANGED not_label_vars
    /\ pc = "cat_done"
    /\ IF cat < Len(Categories)
       THEN /\ cat' = cat + 1
            /\ pc' = "category"
            /\ returned' = FALSE
       ELSE /\ cat' = cat
            /\ pc' = "done"
            /\ returned' = TRUE
    /\ UNCHANGED <<mem_map, limits, addresses, pos, data, requests, outstanding,
                   missed, errors>>


(***************************************************************************)
(* Frame definitions: the five construct layouts of lines 231-332, their   *)
(* build (encode) and their parse (decode).                                *)
(***************************************************************************)
\* One field of a layout.  kind is one of
\*   "const"    Const(v, Int8ub), or a BitStruct of two Const nibbles (v the byte)
\*   "hi_const" a BitStruct byte: Const(v, Nibble), then a 4-bit field
\*   "pad"      Padding(size): zeros when built, skipped when parsed
\*   "var"      Int8ub, Int16ub, Bytes(size), an Enum or HexInt over Int8ub
\*   "default"  Default(subcon, v): v when the caller gives no value
\*   "rebuild"  Rebuild(Int8ub, ...): computed when built, read when parsed
F(name, size, kind, v) == [name |-> name, size |-> size, kind |-> kind, v |-> v]

\* The width in bytes of ProductIdEnum, CommunicationSourceIDEnum and HexInt,
\* which paradox.hardware.common builds over Int8ub.
CommonFieldSize == 1

InitiateCommunication ==
    << F("po", 1, "const", 7 * 16 + 2),
       F("reserved1", 35, "pad", 0) >>

InitiateCommunicationResponse ==
    << F("po", 1, "hi_const", 7),
       F("new_protocol", 1, "const", 255),
       F("protocol_id", 1, "var", 0),
       F("protocol.version", 1, "var", 0),
       F("protocol.revision", 1, "var", 0),
       F("protocol.build", 1, "var", 0),
       F("family_id", 1, "var", 0),
       F("product_id", CommonFieldSize, "var", 0),
       F("talker", 1, "var", 0),
       F("application.version", CommonFieldSize, "var", 0),
       F("application.revision", CommonFieldSize, "var", 0),
       F("application.build", CommonFieldSize, "var", 0),
       F("serial_number", 4, "var", 0),
       F("hardware.version", 1, "var", 0),
       F("hardware.revision", 1, "var", 0),
       F("bootloader.version", 1, "var", 0),
       F("bootloader.revision", 1, "var", 0),
       F("bootloader.build", 1, "var", 0),
       F("bootloader.day", 1, "var", 0),
       F("bootloader.month", 1, "var", 0),
       F("bootloader.year", 1, "var", 0),
       F("processor_id", 1, "var", 0),
       F("encryption_id", 1, "var", 0),
       F("reserved0", 2, "var", 0),
       F("label", 8, "var", 0) >>

StartCommunication ==
    << F("po", 1, "const", 95),
       F("validation", 1, "const", 32),
       F("_not_used0", 31, "pad", 0),
       F("source_id", CommonFieldSize, "default", 1),
       F("user_id.high", 1, "default", 0),
       F("user_id.low", 1, "default", 0) >>

StartCommunicationResponse ==
    << F("po", 1, "hi_const", 0),
       F("_not_used0", 3, "var", 0),
       F("product_id", CommonFieldSize, "var", 0),
       F("firmware.version", 1, "var", 0),
       F("firmware.revision", 1, "var", 0),
       F("firmware.build", 1, "var", 0),
       F("panel_id", 2, "var", 0),
       F("_not_used1", 5, "var", 0),
       F("transceiver.firmware_build", 1, "var", 0),
       F("transceiver.family", 1, "var", 0),
       F("transceiver.firmware_version", 1, "var", 0),
       F("transceiver.firmware_revision", 1, "var", 0),
       F("transceiver.noise_floor_level", 1, "var", 0),
       F("transceiver.status", 1, "var", 0),
       F("transceiver.hardware_revision", 1, "var", 0),
       F("_not_used2", 14, "var", 0) >>

CloseConnection ==
    << F("po", 1, "const", 112),
       F("length", 1, "rebuild", 0),
       F("_not_used0", 34, "pad", 0) >>

FrameNames == {"InitiateCommunication", "InitiateCommunicationResponse",
               "StartCommunication", "StartCommunicationResponse", "CloseConnection"}

Layout(frame) ==
    CASE frame = "InitiateCommunication" -> InitiateCommunication
      [] frame = "InitiateCommunicationResponse" -> InitiateCommunicationResponse
      [] frame = "StartCommunication" -> StartCommunication
      [] frame = "StartCommunicationResponse" -> StartCommunicationResponse
      [] frame = "CloseConnection" -> CloseConnection

\* Struct.sizeof(): the sum of the fields' sizes.
LayoutSize(layout) == SumSeq([i \in DOMAIN layout |-> layout[i].size])

\* Checksum(Bytes(1), ...): the checksum field is one byte.
ChecksumSize == 1

\* paradox.hardware.common.calculate_checksum: the sum of the bytes modulo 256.
calculate_checksum(bytes) == SumSeq(bytes) % 256

\* The four Flags of StartCommunicationResponse's status nibble, as BitStruct
\* lays them out: the first declared is the most significant bit.
StatusNibble(st) ==
    (IF st.reserved THEN 8 ELSE 0) + (IF st.alarm_reporting_pending THEN 4 ELSE 0)
    + (IF st.Winload_connected THEN 2 ELSE 0) + (IF st.NeWare_connected THEN 1 ELSE 0)

StatusFlags(n) ==
    [reserved |-> (n \div 8) % 2 = 1,
     alarm_reporting_pending |-> (n \div 4) % 2 = 1,
     Winload_connected |-> (n \div 2) % 2 = 1,
     NeWare_connected |-> n % 2 = 1]

\* The Rebuild of CloseConnection.length (lines 328-329):
\* _root._subcons.fields.sizeof() + _root._subcons.checksum.sizeof().
RebuildLength(frame) == LayoutSize(Layout(frame)) + ChecksumSize

\* The bytes one field builds to.  values maps the names of the fields the
\* caller gives to their bytes (for "hi_const", to the low nibble).
BuildField(frame, f, values) ==
    CASE f.kind = "const" -> <<f.v>>
      [] f.kind = "hi_const" -> <<f.v * 16 + values[f.name][1]>>
      [] f.kind = "pad" -> Zeros(f.size)
      [] f.kind = "var" -> values[f.name]
      [] f.kind = "default" ->
            IF f.name \in DOMAIN values THEN values[f.name] ELSE <<f.v>>
      [] f.kind = "rebuild" -> <<RebuildLength(frame)>>

RECURSIVE BuildFields(_, _, _, _)
BuildFields(frame, layout, i, values) ==
    IF i > Len(layout) THEN <<>>
    ELSE BuildField(frame, layout[i], values) \o BuildFields(frame, layout, i + 1, values)

\* <frame>.build(dict(fields=dict(value=values))): the payload in declared
\* order (RawCopy keeps its bytes as fields.data), then the checksum of
\* this.fields.data.
Build(frame, values) ==
    LET raw == BuildFields(frame, Layout(frame), 1, values)
    IN  raw \o <<calculate_checksum(raw)>>

ParseOk(frame, fields, raw, checksum) ==
    [ok |-> TRUE, error |-> "", frame |-> frame, fields |-> fields, raw |-> raw,
     checksum |-> checksum]

ParseError(frame, error) ==
    [ok |-> FALSE, error |-> error, frame |-> frame, fields |-> <<>>, raw |-> <<>>,
     checksum |-> 0]

\* Parsing the fields from offset `at` (0-based) on: the name of the error
\* the first failing field raises, or "" when all fields parse.
RECURSIVE ParseFieldsError(_, _, _, _)
ParseFieldsError(layout, i, buf, at) ==
    IF i > Len(layout) THEN ""
    ELSE LET f == layout[i]
         IN  IF at + f.size > Len(buf) THEN "StreamError"
             ELSE IF f.kind = "const" /\ buf[at + 1] # f.v THEN "ConstError"
             ELSE IF f.kind = "hi_const" /\ buf[at + 1] \div 16 # f.v THEN "ConstError"
             ELSE ParseFieldsError(layout, i + 1, buf, at + f.size)

\* The offset (0-based) of field i of a layout.
FieldOffset(layout, i) == SumSeq([j \in 1..(i - 1) |-> layout[j].size])

\* The container of the parsed fields: name -> bytes (for "hi_const", the low
\* nibble; Padding parses to nothing).
ParsedFields(layout, buf) ==
    LET named == {i \in DOMAIN layout : layout[i].kind # "pad"}
        at(n) == CHOOSE i \in named : layout[i].name = n
    IN  [n \in {layout[i].name : i \in named} |->
            LET i == at(n)
                o == FieldOffset(layout, i)
            IN  IF layout[i].kind = "hi_const" THEN <<buf[o + 1] % 16>>
                ELSE SubSeq(buf, o + 1, o + layout[i].size)]

\* <frame>.parse(buf) with the Checksum field read but not compared.
ParseUnchecked(frame, buf) ==
    LET layout == Layout(frame)
        size   == LayoutSize(layout)
        err    == ParseFieldsError(layout, 1, buf, 0)
    IN  IF err # "" THEN ParseError(frame, err)
        ELSE IF Len(buf) < size + ChecksumSize THEN ParseError(frame, "StreamError")
        ELSE ParseOk(frame, ParsedFields(layout, buf), SubSeq(buf, 1, size), buf[size + 1])

\* <frame>.parse(buf): the fields in declared order, each raising on a short
\* stream or a Const mismatch, then the checksum byte, compared with
\* calculate_checksum(this.fields.data).  Bytes after the frame are not read.
Parse(frame, buf) ==
    LET layout == Layout(frame)
        size   == LayoutSize(layout)
        err    == ParseFieldsError(layout, 1, buf, 0)
    IN  IF err # "" THEN ParseError(frame, err)
        ELSE IF Len(buf) < size + ChecksumSize THEN ParseError(frame, "StreamError")
        ELSE IF buf[size + 1] # calculate_checksum(SubSeq(buf, 1, size))
             THEN ParseError(frame, "ChecksumError")
        ELSE ParseOk(frame, ParsedFields(layout, buf), SubSeq(buf, 1, size), buf[size + 1])

(***************************************************************************)
(* The components not under check: no call made.                           *)
(***************************************************************************)
NotCalled == [made |-> FALSE]

ParseOff == p_call = NotCalled /\ p_ret = NotCalled

PasswordOff == pw_call = NotCalled /\ pw_ret = NotCalled

StatusOff ==
    /\ s_parser_map = <<>>
    /\ s_call = NotCalled
    /\ s_ret = NotCalled
    /\ s_failed = 0
    /\ s_calls = 0

FrameOff == f_call = NotCalled /\ f_ret = [made |-> FALSE, stage |-> "none"]

(***************************************************************************)
(* Spec: one invocation of load_labels against a transport that may answer *)
(* or miss every request.                                                  *)
(***************************************************************************)
Init == LabelInit /\ ParseOff /\ PasswordOff /\ StatusOff /\ FrameOff

Next ==
    \/ StartLoad
    \/ BeginCategory
    \/ SendRequest
    \/ ReceiveReply
    \/ LoopExhausted
    \/ EndCategory

Spec == Init /\ [][Next]_vars

(***************************************************************************)
(* Claims about the label loader, checked under Spec.                      *)
(***************************************************************************)
\* The requests issued for category c, in the order of their issue.
RequestsOf(c) == SelectSeq(requests, LAMBDA r : Categories[r.cat] = c)

\* Whether the requests issued for c are exactly the first n pairs of its
\* (filtered) address sequence.
RequestedFirst(c, n) ==
    LET pairs == FilteredAddresses(mem_map, limits, c)
        reqs  == RequestsOf(c)
    IN  /\ Len(reqs) = n
        /\ \A i \in 1..n : reqs[i].index = pairs[i][1] /\ reqs[i].address = pairs[i][2]

\* The number of pairs of c that were answered: all of them, or those before
\* the miss.
Answered(c) ==
    IF missed[c] = 0 THEN Len(FilteredAddresses(mem_map, limits, c)) ELSE missed[c] - 1

\* The mapping of a category whose first Answered(c) pairs were answered.
Loaded(c) ==
    LET pairs == FilteredAddresses(mem_map, limits, c)
        addr(i) == (CHOOSE j \in 1..Len(pairs) : pairs[j][1] = i)
    IN  [i \in {pairs[j][1] : j \in 1..Answered(c)} |->
            Properties(i, MemData(pairs[addr(i)][2]), mem_map[c].label_offset)]

\* C1: within one category, once send_wait returns no reply for the k-th pair
\* of the filtered address sequence, the requests issued for that category
\* are exactly those of the first k pairs (none follows the miss) and the
\* category's mapping holds exactly the indices of the pairs before the k-th.
C1_AbortOnMiss ==
    \A c \in DOMAIN data :
        missed[c] # 0 =>
            LET pairs == FilteredAddresses(mem_map, limits, c)
            IN  /\ RequestedFirst(c, missed[c])
                /\ DOMAIN data[c] = {pairs[i][1] : i \in 1..(missed[c] - 1)}

\* C1's case: a category of 3 addresses whose 2nd reply is missing; load_labels
\* has returned a mapping with index 1 and without 2 and 3.
C1_Witness ==
    /\ returned
    /\ \E c \in DOMAIN data :
          /\ Len(FilteredAddresses(mem_map, limits, c)) = 3
          /\ missed[c] = 2
          /\ DOMAIN data[c] = {1}

\* C2: in the mapping load_labels returns, a miss in category C leaves every
\* other category as loaded: the categories before C hold what their replies
\* gave them, and every category after C was requested (up to its own miss,
\* if any) and holds what its replies gave it.
C2_FailureIsolation ==
    returned =>
        \A C \in Range(Categories) :
            missed[C] # 0 =>
                \A c \in Range(Categories) \ {C} :
                    /\ c \in DOMAIN data
                    /\ data[c] = Loaded(c)
                    /\ CatPos(c) > CatPos(C) =>
                           RequestedFirst(c, IF missed[c] = 0 THEN Answered(c) ELSE missed[c])

\* C2's case: the middle category missed a reply, the first and the last
\* category are non-empty and fully loaded, and load_labels has returned.
C2_Witness ==
    /\ returned
    /\ missed["partition"] # 0
    /\ missed["zone"] = 0 /\ missed["pgm"] = 0
    /\ DOMAIN data["zone"] # {}
    /\ DOMAIN data["pgm"] # {}
    /\ data["zone"] = Loaded("zone")
    /\ data["pgm"] = Loaded("pgm")

\* C3: at most one request is outstanding at any time, and the requests are
\* issued category by category in the table's order, within a category in
\* strictly increasing index order.
C3_RequestOrdering ==
    /\ outstanding <= 1
    /\ \A i, j \in DOMAIN requests :
          i < j =>
              \/ requests[i].cat < requests[j].cat
              \/ /\ requests[i].cat = requests[j].cat
                 /\ requests[i].index < requests[j].index

\* C3's case: requests of two categories have been issued, two of them in one
\* category, and one request is waiting for its reply.
C3_Witness ==
    /\ outstanding = 1
    /\ \E i, j, k \in DOMAIN requests :
          /\ i < j /\ j < k
          /\ requests[i].cat = requests[j].cat
          /\ requests[j].cat < requests[k].cat

(***************************************************************************)
(* SpecFrames: a handshake frame is built, and the bytes received parsed.   *)
(***************************************************************************)
FillBytes == {0, 1, 255}

\* The values a caller gives for a frame: every variable field filled with
\* `fill`, the 4-bit field of the first byte set to `nib`, and, with `opt`,
\* the fields that need no value (Default, Rebuild) given as well.
Values(frame, fill, nib, opt) ==
    LET layout == Layout(frame)
        needed == {i \in DOMAIN layout : layout[i].kind \in {"var", "hi_const"}}
        extra  == {i \in DOMAIN layout : layout[i].kind \in {"default", "rebuild"}}
        given  == IF opt THEN needed \cup extra ELSE needed
        at(n)  == CHOOSE i \in given : layout[i].name = n
    IN  [n \in {layout[i].name : i \in given} |->
            IF layout[at(n)].kind = "hi_const" THEN <<nib>>
            ELSE [k \in 1..layout[at(n)].size |-> fill]]

\* buf with delta added (modulo 256) to the byte at position p (1-based).
Corrupt(buf, p, delta) ==
    [i \in DOMAIN buf |-> IF i = p THEN (buf[i] + delta) % 256 ELSE buf[i]]

\* buf cut or zero-extended to n bytes.
Resize(buf, n) == [i \in 1..n |-> IF i <= Len(buf) THEN buf[i] ELSE 0]

\* The changes a frame may suffer on the wire: <<position, delta>>, a delta
\* of 0 leaving it as built.
Corruptions == {<<1, 0>>, <<1, 1>>, <<1, 16>>, <<2, 1>>, <<37, 1>>}

\* A frame is built from the caller's values, and the bytes received (the
\* bytes built, changed and cut or extended) are parsed as a frame type.
FrameCalls ==
    {[made |-> TRUE, frame |-> fr, values |-> Values(fr, fill, nib, opt),
      parse_as |-> pa, corruption |-> c, received_len |-> n]
     : fr \in FrameNames, fill \in FillBytes, nib \in {0, 5, 15}, opt \in BOOLEAN,
       pa \in FrameNames, c \in Corruptions, n \in {36, 37, 38}}

FrameInit ==
    /\ f_call \in FrameCalls
    /\ f_ret = [made |-> FALSE, stage |-> "none"]

\* <frame>.build(...)
BuildFrame ==
    /\ UNCHANGED not_frame_vars
    /\ f_ret.stage = "none"
    /\ f_ret' = [made |-> TRUE, stage |-> "built",
                 bytes |-> Build(f_call.frame, f_call.values)]
    /\ UNCHANGED f_call

\* <frame>.parse(...) of the bytes received.
ParseFrame ==
    /\ UNCHANGED not_frame_vars
    /\ f_ret.stage = "built"
    /\ LET buffer == Resize(Corrupt(f_ret.bytes, f_call.corruption[1],
                                    f_call.corruption[2]),
                            f_call.received_len)
       IN  f_ret' = [made |-> TRUE, stage |-> "parsed", bytes |-> f_ret.bytes,
                     buffer |-> buffer, parsed |-> Parse(f_call.parse_as, buffer)]
    /\ UNCHANGED f_call

FramesInit == LabelOff /\ ParseOff /\ PasswordOff /\ StatusOff /\ FrameInit

FramesNext ==
    \/ BuildFrame
    \/ ParseFrame

SpecFrames == FramesInit /\ [][FramesNext]_vars

\* Whether the command constant at the head of buf is the one of the frame
\* type: the command nibble 7 (initiate communication and its response) or 0
\* (start-communication response), the command byte 0x5F or 0x70.
CommandMatches(frame, buf) ==
    CASE frame = "InitiateCommunication" -> buf[1] \div 16 = 7
      [] frame = "InitiateCommunicationResponse" -> buf[1] \div 16 = 7
      [] frame = "StartCommunication" -> buf[1] = 95
      [] frame = "StartCommunicationResponse" -> buf[1] \div 16 = 0
      [] frame = "CloseConnection" -> buf[1] = 112

\* C9: each of the five layouts sums to 36 bytes; a built frame has 37 bytes,
\* the last the checksum of the first 36; the length byte of a built
\* CloseConnection is 37 whatever the caller gives; and the parse of a 37-byte
\* buffer whose last byte is not the checksum of the first 36, or whose
\* command constant is not the frame type's, fails.
C9_FrameDiscipline ==
    /\ \A fr \in FrameNames : LayoutSize(Layout(fr)) = 36
    /\ f_ret.made =>
          /\ Len(f_ret.bytes) = 37
          /\ f_ret.bytes[37] = calculate_checksum(SubSeq(f_ret.bytes, 1, 36))
          /\ f_call.frame = "CloseConnection" => f_ret.bytes[2] = 37
    /\ (f_ret.made /\ f_ret.stage = "parsed" /\ Len(f_ret.buffer) = 37) =>
          /\ f_ret.buffer[37] # calculate_checksum(SubSeq(f_ret.buffer, 1, 36))
                => ~f_ret.parsed.ok
          /\ ~CommandMatches(f_call.parse_as, f_ret.buffer) => ~f_ret.parsed.ok

\* C9's case: a CloseConnection built from a caller's length of 255 has the
\* length byte 37; received with a wrong checksum byte, it is rejected.
C9_Witness ==
    /\ f_ret.made
    /\ f_ret.stage = "parsed"
    /\ f_call.frame = "CloseConnection"
    /\ f_call.parse_as = "CloseConnection"
    /\ "length" \in DOMAIN f_call.values
    /\ f_call.values["length"] = <<255>>
    /\ f_ret.bytes[2] = 37
    /\ Len(f_ret.buffer) = 37
    /\ f_ret.buffer[37] # calculate_checksum(SubSeq(f_ret.buffer, 1, 36))
    /\ f_ret.parsed.error = "ChecksumError"

(***************************************************************************)
(* Message dispatcher: Panel.parse_message.                                *)
(***************************************************************************)
\* The outcomes of parse_message: None, an exception, or what <frame>.parse
\* returned.
ReturnNone == [raised |-> "", none |-> TRUE, selected |-> "None", parsed |-> <<>>]

Raise(error, selected) ==
    [raised |-> error, none |-> FALSE, selected |-> selected, parsed |-> <<>>]

\* return <frame>.parse(message): the container, or the exception of parse.
ReturnParse(frame, bytes) ==
    LET r == Parse(frame, bytes)
    IN  IF r.ok THEN [raised |-> "", none |-> FALSE, selected |-> frame, parsed |-> r]
        ELSE Raise(r.error, frame)

\* Panel.parse_message (lines 28-43).  message[i] of a buffer of i bytes or
\* fewer raises IndexError; `and` evaluates its right side only when the left
\* side holds; the 'topanel' branch falls off its end and so returns None.
parse_message(message, direction) ==
    LET b == message.bytes
        n == Len(b)
    IN  IF message.none \/ n = 0 THEN ReturnNone
        ELSE IF direction = "topanel"
        THEN IF b[1] = 114 /\ n < 2 THEN Raise("IndexError", "None")
             ELSE IF b[1] = 114 /\ b[2] = 0 THEN ReturnParse("InitiateCommunication", b)
             ELSE IF b[1] = 95 THEN ReturnParse("StartCommunication", b)
             ELSE ReturnNone
        ELSE IF b[1] = 114 /\ n < 2 THEN Raise("IndexError", "None")
             ELSE IF b[1] = 114 /\ b[2] = 255
                  THEN ReturnParse("InitiateCommunicationResponse", b)
             ELSE IF b[1] = 0 /\ n < 5 THEN Raise("IndexError", "None")
             ELSE IF b[1] = 0 /\ b[5] > 0
                  THEN ReturnParse("StartCommunicationResponse", b)
             ELSE ReturnNone

\* Longest buffer that is shorter than a frame's leading bytes need.
MaxShortLen == 5

Some(bytes) == [none |-> FALSE, bytes |-> bytes]

\* The buffers handed to parse_message: None, the empty buffer, buffers of 1
\* to MaxShortLen bytes, 37-byte buffers with a right or a wrong checksum
\* byte, and the frames the five layouts build.
Messages ==
    {[none |-> TRUE, bytes |-> <<>>], Some(<<>>)}
    \cup {Some(Resize(<<b0, b1, 0, 0, b4>>, n))
          : b0 \in {0, 2, 15, 95, 112, 114, 170}, b1 \in {0, 32, 255}, b4 \in {0, 5},
            n \in 1..MaxShortLen}
    \cup {Some(Resize(<<b0, b1, 0, 0, b4>>, 36) \o <<(b0 + b1 + b4 + d) % 256>>)
          : b0 \in {0, 2, 15, 95, 112, 114, 170}, b1 \in {0, 32, 255}, b4 \in {0, 5},
            d \in {0, 1}}
    \cup {Some(Build(fr, Values(fr, fill, nib, TRUE)))
          : fr \in FrameNames, fill \in {0, 5}, nib \in 0..15}

Directions == {"topanel", "frompanel"}

ParseInit ==
    /\ p_call \in {[made |-> TRUE, message |-> m, direction |-> d]
                   : m \in Messages, d \in Directions}
    /\ p_ret = NotCalled

RetOf(r) == [made |-> TRUE, raised |-> r.raised, none |-> r.none,
             selected |-> r.selected, parsed |-> r.parsed]

\* One call of parse_message.
ParseMessage ==
    /\ UNCHANGED not_parse_vars
    /\ ~p_ret.made
    /\ p_ret' = RetOf(parse_message(p_call.message, p_call.direction))
    /\ UNCHANGED p_call

DispatchInit == LabelOff /\ ParseInit /\ PasswordOff /\ StatusOff /\ FrameOff

DispatchNext ==
    \/ ParseMessage

SpecDispatch == DispatchInit /\ [][DispatchNext]_vars

\* Whether the buffer has a byte at (0-based) position i, equal to v.
ByteIs(message, i, v) ==
    ~message.none /\ Len(message.bytes) > i /\ message.bytes[i + 1] = v

\* The frame type the dispatcher is to select, "None" when there is none.
Classified(message, direction) ==
    IF message.none \/ Len(message.bytes) = 0 THEN "None"
    ELSE IF direction = "topanel"
    THEN IF ByteIs(message, 0, 114) /\ ByteIs(message, 1, 0) THEN "InitiateCommunication"
         ELSE IF ByteIs(message, 0, 95) THEN "StartCommunication"
         ELSE "None"
    ELSE IF ByteIs(message, 0, 114) /\ ByteIs(message, 1, 255)
         THEN "InitiateCommunicationResponse"
         ELSE IF ByteIs(message, 0, 0) /\ Len(message.bytes) > 4 /\ message.bytes[5] > 0
         THEN "StartCommunicationResponse"
         ELSE "None"

\* C4: parse_message returns None for a null or empty buffer; otherwise it
\* selects, by direction and leading bytes, InitiateCommunication (0x72 0x00)
\* or StartCommunication (0x5F) towards the panel, InitiateCommunicationResponse
\* (0x72 0xFF) or StartCommunicationResponse (0x00, byte 4 > 0) from the panel,
\* and returns None when none is selected; a frame type of one direction is
\* never selected in the other.
C4_Classification ==
    p_ret.made =>
        LET want == Classified(p_call.message, p_call.direction)
        IN  /\ IF want = "None"
               THEN p_ret.none /\ p_ret.raised = ""
               ELSE p_ret.selected = want
            /\ p_call.direction = "topanel" =>
                  p_ret.selected \in {"None", "InitiateCommunication", "StartCommunication"}
            /\ p_call.direction # "topanel" =>
                  p_ret.selected \in {"None", "InitiateCommunicationResponse",
                                      "StartCommunicationResponse"}

\* The classification of C4 on the buffers that have a byte at every position
\* the dispatcher may read (5 bytes or more), and on the null and the empty
\* buffer.
ClassificationOfLongBuffers ==
    (p_ret.made /\ (p_call.message.none \/ Len(p_call.message.bytes) = 0
                    \/ Len(p_call.message.bytes) >= 5)) =>
        LET want == Classified(p_call.message, p_call.direction)
        IN  IF want = "None"
            THEN p_ret.none /\ p_ret.raised = ""
            ELSE p_ret.selected = want

\* C5: for a buffer of any length and either direction, when the leading
\* bytes match no frame type of the direction, parse_message returns None and
\* raises nothing.
C5_NoMatchReturnsNone ==
    (p_ret.made /\ Classified(p_call.message, p_call.direction) = "None") =>
        (p_ret.raised = "" /\ p_ret.none)

\* C10: from the panel, every buffer whose byte 0 has high nibble 0 and whose
\* byte 4 is greater than 0 is classified as StartCommunicationResponse, and
\* a well-formed frame of that type decodes to the status flags of its byte 0.
C10_StartResponseByNibble ==
    (/\ p_ret.made
     /\ p_call.direction = "frompanel"
     /\ ~p_call.message.none
     /\ Len(p_call.message.bytes) >= 5
     /\ p_call.message.bytes[1] \div 16 = 0
     /\ p_call.message.bytes[5] > 0) =>
        /\ p_ret.selected = "StartCommunicationResponse"
        /\ Parse("StartCommunicationResponse", p_call.message.bytes).ok =>
              /\ p_ret.raised = ""
              /\ StatusFlags(p_ret.parsed.fields["po"][1])
                    = StatusFlags(p_call.message.bytes[1] % 16)

(***************************************************************************)
(* Password encoder: Panel.encode_password.                                *)
(***************************************************************************)
\* A password is None, an int, a str or a bytes; the characters of a str or
\* bytes are their character codes.
PwNone == [type |-> "none", n |-> 0, chars |-> <<>>]
PwInt(n) == [type |-> "int", n |-> n, chars |-> <<>>]
PwStr(chars) == [type |-> "str", n |-> 0, chars |-> chars]
PwBytes(chars) == [type |-> "bytes", n |-> 0, chars |-> chars]

DigitChars == 48..57

\* str(n) of a natural number: its decimal digits.
RECURSIVE NatStr(_)
NatStr(n) == IF n < 10 THEN <<48 + n>> ELSE NatStr(n \div 10) \o <<48 + (n % 10)>>

\* str(n): a minus sign before the digits of a negative number.
IntStr(n) == IF n < 0 THEN <<45>> \o NatStr(-n) ELSE NatStr(n)

\* str.zfill(width): zeros on the left, after a leading sign.
zfill(chars, width) ==
    LET pad == Zeros(Max(width - Len(chars), 0))
        zs  == [i \in DOMAIN pad |-> 48]
    IN  IF chars # <<>> /\ chars[1] \in {43, 45} THEN <<chars[1]>> \o zs \o Tail(chars)
        ELSE zs \o chars

\* str.isdigit(): not empty, and every character a digit.
isdigit(chars) == chars # <<>> /\ \A i \in DOMAIN chars : chars[i] \in DigitChars

\* int(password) of a string of digits.
RECURSIVE IntOf(_)
IntOf(chars) ==
    IF chars = <<>> THEN 0
    ELSE IntOf(SubSeq(chars, 1, Len(chars) - 1)) * 10 + (chars[Len(chars)] - 48)

\* The while-loop of lines 117-130 with the digit 0 left as nibble 0.
RECURSIVE PackLoopZero(_, _, _, _)
PackLoopZero(i, i2, int_password, res) ==
    IF i <= 0 THEN res
    ELSE LET b == int_password % 10
         IN  IF i % 2 = 0
             THEN PackLoopZero(i - 1, i2, int_password \div 10, [res EXCEPT ![i2 + 1] = b])
             ELSE PackLoopZero(i - 1, i2 - 1, int_password \div 10,
                               [res EXCEPT ![i2 + 1] = (((b * 16) % 256) + @) % 256])

\* The while-loop of lines 117-130.  b << 4 has no bit in common with the
\* nibble already in res[i2], so the OR is a sum; res[i2] is res[i2 + 1] here.
RECURSIVE PackLoop(_, _, _, _)
PackLoop(i, i2, int_password, res) ==
    IF i <= 0 THEN res
    ELSE LET d == int_password % 10
             b == IF d = 0 THEN 10 ELSE d
         IN  IF i % 2 = 0
             THEN PackLoop(i - 1, i2, int_password \div 10, [res EXCEPT ![i2 + 1] = b])
             ELSE PackLoop(i - 1, i2 - 1, int_password \div 10,
                           [res EXCEPT ![i2 + 1] = (((b * 16) % 256) + @) % 256])

PwReturn(bytes) == [raised |-> "", bytes |-> bytes]
PwRaise(error) == [raised |-> error, bytes |-> <<>>]

\* password in [b'0000', '0000', 0] (line 101).
IsNoPassword(password) ==
    \/ password.type = "bytes" /\ password.chars = <<48, 48, 48, 48>>
    \/ password.type = "str" /\ password.chars = <<48, 48, 48, 48>>
    \/ password.type = "int" /\ password.n = 0

\* The length test of line 107 as `len(password) > 4`.
BadLengthOnlyLonger(chars) == Len(chars) > 4

\* The length test of line 107.
BadLength(chars) == Len(chars) # 4

\* Panel.encode_password (lines 97-132).
encode_password(password) ==
    IF password.type = "none" \/ IsNoPassword(password) THEN PwReturn(<<0, 0>>)
    ELSE LET chars == IF password.type = "int" THEN zfill(IntStr(password.n), 4)
                      ELSE password.chars
         IN  IF BadLength(chars) THEN PwRaise("Password length must be equal to 4")
             ELSE IF ~isdigit(chars) THEN PwRaise("Not supported password")
             ELSE LET i  == Min(4, Len(chars))
                      i2 == i \div 2 - 1
                  IN  PwReturn(PackLoop(i, i2, IntOf(chars), <<0, 0>>))

\* Largest integer password tried; 9999 is the largest of 4 digits.
MaxIntPassword == 10020

\* Smallest integer password tried is -MaxNegPassword.
MaxNegPassword == 1002

\* Longest string password tried.
MaxPwLen == 5

\* Strings of length n over an alphabet.
StringsOf(alphabet, n) == [1..n -> alphabet]

\* The passwords handed to encode_password: None, the integers from
\* -MaxNegPassword to MaxIntPassword, every 4-character str over the digits
\* and the letter a, the 4-character bytes over 0, 1, 9, a, the str of up to
\* MaxPwLen characters over 0, 1, 2, 3, a and the bytes of up to MaxPwLen
\* characters over 0, 1, a.
Passwords ==
    {PwNone}
    \cup {PwInt(n) : n \in (-MaxNegPassword)..MaxIntPassword}
    \cup {PwStr(c) : c \in StringsOf(DigitChars \cup {97}, 4)}
    \cup {PwBytes(c) : c \in StringsOf({48, 49, 57, 97}, 4)}
    \cup UNION {{PwStr(c) : c \in StringsOf({48, 49, 50, 51, 97}, n)} : n \in 0..MaxPwLen}
    \cup UNION {{PwBytes(c) : c \in StringsOf({48, 49, 97}, n)} : n \in 0..MaxPwLen}

PasswordInit ==
    /\ pw_call \in {[made |-> TRUE, password |-> pw] : pw \in Passwords}
    /\ pw_ret = NotCalled

\* One call of encode_password.
EncodePassword ==
    /\ UNCHANGED not_pw_vars
    /\ ~pw_ret.made
    /\ LET r == encode_password(pw_call.password)
       IN  pw_ret' = [made |-> TRUE, raised |-> r.raised, bytes |-> r.bytes]
    /\ UNCHANGED pw_call

EncoderInit == LabelOff /\ ParseOff /\ PasswordInit /\ StatusOff /\ FrameOff

EncoderNext ==
    \/ EncodePassword

SpecPassword == EncoderInit /\ [][EncoderNext]_vars

\* The nibble of a decimal digit: 0x0A for 0, the digit itself for 1..9.
NibbleOf(d) == IF d = 0 THEN 10 ELSE d

\* The 4-character zero-padded decimal string of n in 0..9999.
Padded4(n) ==
    <<48 + ((n \div 1000) % 10), 48 + ((n \div 100) % 10), 48 + ((n \div 10) % 10),
      48 + (n % 10)>>

\* C6: a 4-digit password d3 d2 d1 d0 other than 0000, given as str or bytes,
\* encodes to the 2 bytes [n(d3)*16 + n(d2), n(d1)*16 + n(d0)] with n(0) = 0x0A
\* and n(d) = d otherwise, so that every nibble is in 1..0x0A; an integer in
\* 1..9999 encodes as its zero-padded 4-character string does.
C6_PasswordPacking ==
    pw_ret.made =>
        LET pw == pw_call.password
        IN  /\ (/\ pw.type \in {"str", "bytes"}
                /\ Len(pw.chars) = 4
                /\ \A i \in 1..4 : pw.chars[i] \in DigitChars
                /\ pw.chars # <<48, 48, 48, 48>>) =>
                   LET d(i) == pw.chars[i] - 48
                   IN  /\ pw_ret.raised = ""
                       /\ pw_ret.bytes = <<NibbleOf(d(1)) * 16 + NibbleOf(d(2)),
                                           NibbleOf(d(3)) * 16 + NibbleOf(d(4))>>
                       /\ \A k \in 1..2 : /\ pw_ret.bytes[k] \div 16 \in 1..10
                                          /\ pw_ret.bytes[k] % 16 \in 1..10
            /\ (pw.type = "int" /\ pw.n \in 1..9999) =>
                   LET d(i) == Padded4(pw.n)[i] - 48
                   IN  /\ pw_ret.raised = ""
                       /\ pw_ret.bytes = <<NibbleOf(d(1)) * 16 + NibbleOf(d(2)),
                                           NibbleOf(d(3)) * 16 + NibbleOf(d(4))>>

\* C6's case: the password "1023" has been encoded, its digit 0 as nibble 0x0A.
C6_Witness ==
    /\ pw_ret.made
    /\ pw_call.password = PwStr(<<49, 48, 50, 51>>)
    /\ pw_ret.bytes = <<16 + 10, 2 * 16 + 3>>

\* C7: None, 0, "0000" and b"0000" encode to two zero bytes; any other input
\* raises, giving no bytes, exactly when its normalised form (an integer as
\* its zero-padded decimal string) is not 4 characters long or holds a
\* character that is no digit; an input that is not rejected gives 2 bytes.
C7_SentinelAndValidation ==
    pw_ret.made =>
        LET pw  == pw_call.password
            nop == \/ pw.type = "none"
                   \/ pw.type = "int" /\ pw.n = 0
                   \/ pw.type \in {"str", "bytes"} /\ pw.chars = <<48, 48, 48, 48>>
            norm == IF pw.type = "int"
                    THEN (IF pw.n < 0 THEN <<45>> \o Padded4(-pw.n)
                          ELSE IF pw.n <= 9999 THEN Padded4(pw.n)
                          ELSE NatStr(pw.n))
                    ELSE pw.chars
            bad == Len(norm) # 4 \/ \E i \in DOMAIN norm : norm[i] \notin DigitChars
        IN  /\ nop => (pw_ret.raised = "" /\ pw_ret.bytes = <<0, 0>>)
            /\ ~nop => (pw_ret.raised # "" <=> bad)
            /\ pw_ret.raised # "" => pw_ret.bytes = <<>>
            /\ pw_ret.raised = "" => Len(pw_ret.bytes) = 2

\* C7's cases: "123" (too short) has been rejected.
C7_Witness ==
    /\ pw_ret.made
    /\ pw_call.password = PwStr(<<49, 50, 51>>)
    /\ pw_ret.raised # ""
    /\ pw_ret.bytes = <<>>

(***************************************************************************)
(* Status dispatcher: Panel.handle_status.                                 *)
(***************************************************************************)
\* Number of memory addresses a status message may name.
NumStatusAddresses == 3

\* Number of handle_status calls of one session.
MaxStatusCalls == 3

StatusAddresses == 1..NumStatusAddresses

\* The parser of a RAM block: it reads `need` bytes and wants the first to
\* be its address.
ParserFor(address) == [name |-> address, need |-> address]

\* parser.parse(data): the container, or the exception a construct raises on
\* a short or an unexpected block.
ParserParse(parser, block) ==
    IF Len(block) < parser.need THEN [raised |-> "StreamError", value |-> <<>>]
    ELSE IF block[1] # parser.name THEN [raised |-> "ConstError", value |-> <<>>]
    ELSE [raised |-> "", value |-> <<parser.name, SubSeq(block, 1, parser.need)>>]

\* The data of the status messages received.
StatusBlocks == {<<>>, <<1>>, <<2, 7>>, <<3, 7, 9>>, <<9, 9, 9>>}

StReturn(value, invoked) ==
    [raised |-> "", none |-> FALSE, value |-> value, invoked |-> invoked]

StNothing(invoked) ==
    [raised |-> "", none |-> TRUE, value |-> <<>>, invoked |-> invoked]

StRaise(error, invoked) ==
    [raised |-> error, none |-> FALSE, value |-> <<>>, invoked |-> invoked]

\* handle_status without the try/except of lines 213-217.
handle_status_no_except(message, parser_map) ==
    IF message.address \notin DOMAIN parser_map THEN StNothing(<<>>)
    ELSE LET parser == parser_map[message.address]
             r      == ParserParse(parser, message.data)
         IN  IF r.raised # "" THEN StRaise(r.raised, <<parser.name>>)
             ELSE StReturn(r.value, <<parser.name>>)

\* Panel.handle_status (lines 204-217).  invoked lists the parsers whose
\* parse was called.
handle_status(message, parser_map) ==
    IF message.address \notin DOMAIN parser_map THEN StNothing(<<>>)
    ELSE LET parser == parser_map[message.address]
             r      == ParserParse(parser, message.data)
         IN  IF r.raised # "" THEN StNothing(<<parser.name>>)
             ELSE StReturn(r.value, <<parser.name>>)

StatusInit ==
    /\ s_parser_map \in {[a \in D |-> ParserFor(a)] : D \in SUBSET StatusAddresses}
    /\ s_call = NotCalled
    /\ s_ret = NotCalled
    /\ s_failed = 0
    /\ s_calls = 0

\* One call of handle_status in the session loop.
HandleStatus ==
    /\ UNCHANGED not_status_vars
    /\ s_calls < MaxStatusCalls
    /\ \E address \in StatusAddresses, block \in StatusBlocks :
          LET message == [address |-> address, data |-> block]
              r       == handle_status(message, s_parser_map)
          IN  /\ s_call' = [made |-> TRUE, address |-> address, data |-> block]
              /\ s_ret' = [made |-> TRUE, raised |-> r.raised, none |-> r.none,
                           value |-> r.value, invoked |-> r.invoked]
              /\ s_failed' = IF r.none \/ r.raised # "" THEN s_failed + 1 ELSE s_failed
    /\ s_calls' = s_calls + 1
    /\ UNCHANGED s_parser_map

SessionInit == LabelOff /\ ParseOff /\ PasswordOff /\ StatusInit /\ FrameOff

SessionNext ==
    \/ HandleStatus

SpecStatus == SessionInit /\ [][SessionNext]_vars

\* C8: handle_status never raises; for an address absent from parser_map it
\* returns nothing and calls no parser; for an address present it calls
\* exactly the parser mapped to the address, on message.data, and returns
\* that parser's result, or nothing when the parser raises.  This holds of
\* every call of a session, whatever the calls before it returned.
C8_StatusDispatch ==
    s_ret.made =>
        /\ s_ret.raised = ""
        /\ s_call.address \notin DOMAIN s_parser_map =>
              (s_ret.none /\ s_ret.invoked = <<>>)
        /\ s_call.address \in DOMAIN s_parser_map =>
              LET parser == s_parser_map[s_call.address]
                  r      == ParserParse(parser, s_call.data)
              IN  /\ s_ret.invoked = <<parser.name>>
                  /\ r.raised # "" => s_ret.none
                  /\ r.raised = "" => (~s_ret.none /\ s_ret.value = r.value)

\* C8's case: after two calls that returned nothing (an absent address or a
\* parser that raised), a call with a valid message returned its decoded
\* result.
C8_Witness ==
    /\ s_ret.made
    /\ s_calls = 3
    /\ s_failed = 2
    /\ ~s_ret.none
    /\ s_ret.value = <<2, <<2, 7>>>>
    /\ DOMAIN s_parser_map # StatusAddresses

====
